---- MODULE Spec2Model ----
(***************************************************************************)
(* generate_db.py: the orchestrator that builds the bmtool, srprism and    *)
(* makeblastdb databases of a FASTA reference, one thread per tool, and    *)
(* joins the threads before it returns; and, further down, the functions  *)
(* find_dependency and process_return of kneaddata/utilities.py.           *)
(*                                                                         *)
(* Strings.  A Python string is a sequence of atoms: the atom " " is one   *)
(* blank, the atom "'" is one single quote, and any other atom is a        *)
(* non-empty run of ordinary characters.  Python's + is \o.                *)
(***************************************************************************)
EXTENDS Integers, Sequences, FiniteSets, TLC

\* Number of times the orchestrator is invoked, one invocation after another.
MaxRuns == 2

Tools == {"bmtool", "srprism", "makeblastdb"}

(***************************************************************************)
(* shlex.split(command), POSIX mode: blanks separate tokens, a single      *)
(* quote opens a quoted run that ends at the next single quote, and an     *)
(* unclosed quote raises ValueError.  st is the lexer state: "ws" between  *)
(* tokens, "a" inside a token, "q" inside quotes.                          *)
(***************************************************************************)
ValueError == <<"ValueError">>

RECURSIVE Lex(_, _, _, _, _)
Lex(s, k, st, tok, acc) ==
    IF k > Len(s)
    THEN CASE st = "q"  -> ValueError
           [] st = "a"  -> <<"ok", Append(acc, tok)>>
           [] OTHER     -> <<"ok", acc>>
    ELSE LET c == s[k] IN
         CASE st = "ws" /\ c = " "  -> Lex(s, k + 1, "ws", <<>>, acc)
           [] st = "ws" /\ c = "'"  -> Lex(s, k + 1, "q", <<>>, acc)
           [] st = "ws"             -> Lex(s, k + 1, "a", <<c>>, acc)
           [] st = "a" /\ c = " "   -> Lex(s, k + 1, "ws", <<>>, Append(acc, tok))
           [] st = "a" /\ c = "'"   -> Lex(s, k + 1, "q", tok, acc)
           [] st = "a"              -> Lex(s, k + 1, "a", Append(tok, c), acc)
           [] st = "q" /\ c = "'"   -> Lex(s, k + 1, "a", tok, acc)
           [] OTHER                 -> Lex(s, k + 1, "q", Append(tok, c), acc)

shlex_split(s) == Lex(s, 1, "ws", <<>>, <<>>)

(***************************************************************************)
(* The artifact names of main.                                             *)
(***************************************************************************)
srprism_ext == <<".amp", ".idx", ".imp", ".map", ".pmp", ".rmp", ".ss", ".ssa", ".ssd">>

blastdb_ext == <<"nhr", "nin", "nsq">>

bitmask_file(prefix) == prefix \o <<".bitmask">>

\* the slip of line 131 made at line 98: the ".srprism" infix is left out
srprism_files_no_infix(prefix) ==
    [k \in 1..Len(srprism_ext) |-> prefix \o <<srprism_ext[k]>>]

srprism_files(prefix) ==
    [k \in 1..Len(srprism_ext) |-> prefix \o <<".srprism">> \o <<srprism_ext[k]>>]

\* line 131 copied whole from line 98: makeblastdb's check reads srprism's files
blastdb_files_of_srprism(prefix) == srprism_files(prefix)

\* line 131 maps over srprism_ext, not over blastdb_ext
blastdb_files(prefix) ==
    [k \in 1..Len(srprism_ext) |-> prefix \o <<srprism_ext[k]>>]

(***************************************************************************)
(* The command strings of main (lines 79-80, 113-114, 145-146).            *)
(***************************************************************************)
bmtool_cmd(a) ==
    a.bmtool_path \o <<" ", "-d", " ">> \o a.fasta \o <<" ", "-o", " ">> \o
    a.output_prefix \o <<".bitmask", " ", "-A", " ", "0", " ", "-z", " ", "-w", " ", "18">>

srprism_cmd(a) ==
    a.srprism_path \o <<" ", "mkindex", " ", "-i", " ">> \o a.fasta \o <<" ", "-o", " ">> \o
    a.output_prefix \o <<".srprism", " ", "-M", " ", "7168">>

makeblastdb_cmd(a) ==
    a.makeblastdb_path \o <<" ", "-in", " ">> \o a.fasta \o
    <<" ", "-dbtype", " ", "nucl", " ", "-out", " ">> \o a.output_prefix

(***************************************************************************)
(* The external tools, as far as the orchestrator depends on them: what a  *)
(* tool started by subprocess.call(argv) writes.  A tool given its         *)
(* documented argument vector creates its artifacts one at a time, in the  *)
(* listed order, under the output name found in argv; given anything else  *)
(* it writes nothing.                                                      *)
(***************************************************************************)
Tok(w) == <<w>>

bmtool_usage(argv) ==
    /\ Len(argv) = 10
    /\ argv[2] = Tok("-d") /\ argv[4] = Tok("-o")
    /\ SubSeq(argv, 6, 10) = <<Tok("-A"), Tok("0"), Tok("-z"), Tok("-w"), Tok("18")>>

srprism_usage(argv) ==
    /\ Len(argv) = 8
    /\ argv[2] = Tok("mkindex") /\ argv[3] = Tok("-i") /\ argv[5] = Tok("-o")
    /\ argv[7] = Tok("-M") /\ argv[8] = Tok("7168")

makeblastdb_usage(argv) ==
    /\ Len(argv) = 7
    /\ argv[2] = Tok("-in") /\ argv[4] = Tok("-dbtype") /\ argv[5] = Tok("nucl")
    /\ argv[6] = Tok("-out")

\* <prefix>.nhr, <prefix>.nin, <prefix>.nsq
blastdb_artifacts(prefix) ==
    [k \in 1..Len(blastdb_ext) |-> prefix \o <<".", blastdb_ext[k]>>]

\* The artifacts tool t produces when run with argv, in the order it writes them.
ToolOutputs(t, argv) ==
    CASE t = "bmtool" /\ bmtool_usage(argv)            -> <<argv[5]>>
      [] t = "srprism" /\ srprism_usage(argv)          ->
            [k \in 1..Len(srprism_ext) |-> argv[6] \o <<srprism_ext[k]>>]
      [] t = "makeblastdb" /\ makeblastdb_usage(argv)  -> blastdb_artifacts(argv[7])
      [] OTHER                                         -> <<>>

\* The input file named in argv, <<>> when argv is not the documented form.
ToolInput(t, argv) ==
    CASE t = "bmtool" /\ bmtool_usage(argv)            -> argv[3]
      [] t = "srprism" /\ srprism_usage(argv)          -> argv[4]
      [] t = "makeblastdb" /\ makeblastdb_usage(argv)  -> argv[3]
      [] OTHER                                         -> <<>>

Range(f) == {f[k] : k \in DOMAIN f}

\* The artifact set of tool t under output prefix p.
Artifacts(t, p) ==
    CASE t = "bmtool"   -> {p \o <<".bitmask">>}
      [] t = "srprism"  -> {p \o <<".srprism", srprism_ext[k]>> : k \in DOMAIN srprism_ext}
      [] OTHER          -> Range(blastdb_artifacts(p))

\* How much of tool t's artifact set the filesystem f holds.
Had(t, p, f) ==
    CASE Artifacts(t, p) \subseteq f     -> "all"
      [] Artifacts(t, p) \cap f = {}     -> "none"
      [] OTHER                           -> "some"

(***************************************************************************)
(* State.                                                                  *)
(***************************************************************************)
VARIABLES
    cli,            \* the command line: fasta, output_prefix (<<>> when omitted), tool paths
    fs,             \* the paths that exist on the filesystem
    at_start,       \* per tool, how much of its artifact set existed when this invocation began
    on_path,        \* the bare executable names found through $PATH
    args,           \* main: the parsed arguments, output_prefix defaulted
    pc,             \* main: where it is
    i,              \* main: index of the file the current existence loop reads
    b_srprism_run,  \* main: line 104
    b_blastdb_run,  \* main: line 136
    threads,        \* main: the list of started threads, by tool
    j,              \* main: index of the thread the join loop waits for
    out,            \* what main has printed
    exit_code,      \* <<>> while the process lives, <<n>> once it has exited with n
    command,        \* run_proc_thread.command of each created thread
    thr,            \* each tool's task: pending, skipped, started, running, completed, error
    proc_argv,      \* the argument vector each launched subprocess was given
    ret,            \* the exit status of each finished subprocess
    run,            \* number of this invocation
    prev,           \* how each tool's task ended in the previous invocation
    pc2,            \* a second process of the script: where its main is ("off": there is none)
    thr2,           \* the second process's bmtool task
    proc_argv2,     \* the argument vector of the second process's bmtool subprocess
    dep_in,         \* find_dependency: its arguments and the environment it reads
    dep_out,        \* find_dependency: <<"off">> no call, <<"called">>, then what the call did
    pr_in,          \* process_return: its arguments
    pr_pc,          \* process_return: where it is ("off": no call)
    log,            \* process_return: the local variable log
    pr_log,         \* process_return: the records logged, as <<level, what>>
    pr_out          \* process_return: <<>> while it runs, then how it ended

vars == <<cli, fs, at_start, on_path, args, pc, i, b_srprism_run, b_blastdb_run, threads, j,
          out, exit_code, command, thr, proc_argv, ret, run, prev,
          pc2, thr2, proc_argv2, dep_in, dep_out, pr_in, pr_pc, log, pr_log, pr_out>>

peer_vars == <<pc2, thr2, proc_argv2>>

util_vars == <<dep_in, dep_out, pr_in, pr_pc, log, pr_log, pr_out>>

main_vars == <<args, pc, i, b_srprism_run, b_blastdb_run, threads, j, out, exit_code>>

\* The inputs Init draws from.
FastaChoices == { <<"ref.fa">>, <<"my", " ", "ref.fa">>, <<"it", "'", "s.fa">> }

PrefixChoices == { <<>>, <<"out">> }

DefaultPaths == [bmtool_path |-> <<"bmtool">>, srprism_path |-> <<"srprism">>,
                 makeblastdb_path |-> <<"makeblastdb">>]

UserPaths == [bmtool_path |-> <<"/opt/bin/", "bmtool">>, srprism_path |-> <<"/opt/bin/", "srprism">>,
              makeblastdb_path |-> <<"/opt/bin/", "makeblastdb">>]

ToolPath(a, t) ==
    CASE t = "bmtool"  -> a.bmtool_path
      [] t = "srprism" -> a.srprism_path
      [] OTHER         -> a.makeblastdb_path

\* the prefix taken as given, without the default
EffectivePrefix_given(a) == a.output_prefix

\* line 55-56
EffectivePrefix(a) == IF a.output_prefix = <<>> THEN a.fasta ELSE a.output_prefix

AllButOne(S) == {S \ {x} : x \in S}

\* The artifacts present before the first invocation, under prefix p: each tool's
\* set and the paths line 131 names, each complete or empty, in every combination;
\* and a srprism or makeblastdb set that lacks exactly one file, beside nothing else
\* or beside everything else.
InitArtifacts(p) ==
    LET A == Artifacts("bmtool", p)
        B == Artifacts("srprism", p)
        C == Artifacts("makeblastdb", p)
        D == Range(blastdb_files(p))
    IN  { a \cup b \cup c \cup d : a \in {{}, A}, b \in {{}, B}, c \in {{}, C}, d \in {{}, D} }
        \cup { b \cup o : b \in AllButOne(B), o \in {{}, A \cup C \cup D} }
        \cup { c \cup o : c \in AllButOne(C), o \in {{}, A \cup B \cup D} }

\* The tool paths of the command line and the tools that cannot be executed: either
\* every path is left to its default and found through $PATH, or every path is given
\* with its option and one of them names no file.
ToolConfigs ==
    {[paths |-> DefaultPaths, missing |-> {}]} \cup
    {[paths |-> UserPaths, missing |-> {t}] : t \in Tools}

\* No second process.
PeerOff ==
    /\ pc2 = "off"
    /\ thr2 = "pending"
    /\ proc_argv2 = <<>>

\* No call of the functions of utilities.py.
UtilOff ==
    /\ dep_in = <<>>
    /\ dep_out = <<"off">>
    /\ pr_in = <<>>
    /\ pr_pc = "off"
    /\ log = "none"
    /\ pr_log = <<>>
    /\ pr_out = <<>>

\* The script is about to run: a command line over the given choices, a filesystem
\* with the artifacts Arts[prefix] allows.
MainInit(Fastas, Prefixes, Configs, Arts) ==
    /\ \E fa \in Fastas, pre \in Prefixes, tc \in Configs :
          /\ cli = [fasta |-> fa, output_prefix |-> pre, bmtool_path |-> tc.paths.bmtool_path,
                    srprism_path |-> tc.paths.srprism_path,
                    makeblastdb_path |-> tc.paths.makeblastdb_path]
          /\ on_path = {ToolPath(DefaultPaths, t) : t \in Tools}
          /\ \E input \in SUBSET {fa}, art \in Arts[EffectivePrefix(cli)] :
                fs = input \cup art \cup {ToolPath(UserPaths, t) : t \in Tools \ tc.missing}
    /\ at_start = [t \in Tools |-> Had(t, EffectivePrefix(cli), fs)]
    /\ args = cli
    /\ pc = "start"
    /\ i = 1
    /\ b_srprism_run = FALSE
    /\ b_blastdb_run = FALSE
    /\ threads = <<>>
    /\ j = 1
    /\ out = <<>>
    /\ exit_code = <<>>
    /\ command = <<>>
    /\ thr = [t \in Tools |-> "pending"]
    /\ proc_argv = <<>>
    /\ ret = <<>>
    /\ run = 1
    /\ prev = [t \in Tools |-> "none"]

Init ==
    /\ MainInit(FastaChoices, PrefixChoices, ToolConfigs,
                [p \in FastaChoices \cup PrefixChoices |-> InitArtifacts(p)])
    /\ PeerOff
    /\ UtilOff

(***************************************************************************)
(* main                                                                    *)
(***************************************************************************)
\* os.path.exists
os_path_exists(p) == p \in fs

\* a lock held while a bmtool task of either process is under way
bmtool_missing_locked(prefix) ==
    /\ ~os_path_exists(bitmask_file(prefix))
    /\ thr["bmtool"] \notin {"started", "running"}
    /\ thr2 \notin {"started", "running"}

\* line 77
bmtool_missing(prefix) == ~os_path_exists(bitmask_file(prefix))

\* the list of line 61 left empty: nothing is checked
inputs_none(a) == <<>>

\* line 61
inputs(a) == <<a.fasta>>

\* the new thread put at the head of the list
StartThread_prepend(t, cmd) ==
    /\ command' = (t :> cmd) @@ command
    /\ thr' = [thr EXCEPT ![t] = "started"]
    /\ threads' = <<t>> \o threads
    /\ out' = out \o << <<"Running", t>>, <<"command", cmd>> >>

\* run_proc_thread(cmd); start(); threads.append()
StartThread(t, cmd) ==
    /\ command' = (t :> cmd) @@ command
    /\ thr' = [thr EXCEPT ![t] = "started"]
    /\ threads' = Append(threads, t)
    /\ out' = out \o << <<"Running", t>>, <<"command", cmd>> >>

\* lines 16-22
exists(s_cmd) == out' = Append(out, <<"already exist", s_cmd>>)

\* the else branches of lines 90-91, 124-125, 156-157: no thread is created
Skip(t) ==
    /\ thr' = [thr EXCEPT ![t] = "skipped"]
    /\ exists(t)
    /\ UNCHANGED <<command, threads>>

\* lines 52-66: parse, default the prefix, check the inputs
Start ==
    /\ pc = "start"
    /\ LET a == [cli EXCEPT !.output_prefix = EffectivePrefix(cli)]
           lost == {k \in 1..Len(inputs(a)) : ~os_path_exists(inputs(a)[k])}
       IN  /\ args' = a
           /\ IF lost # {}
              THEN /\ pc' = "exited"
                   /\ exit_code' = <<1>>
                   /\ out' = out \o << <<"Could not find file", inputs(a)[CHOOSE k \in lost : \A m \in lost : k <= m]>>,
                                       <<"Aborting">> >>
              ELSE /\ pc' = "bmtool"
                   /\ UNCHANGED <<exit_code, out>>
    /\ UNCHANGED <<peer_vars, util_vars, cli, fs, at_start, on_path, i, b_srprism_run, b_blastdb_run, threads, j,
                   command, thr, proc_argv, ret, run, prev>>

\* lines 76-104
Bmtool ==
    /\ pc = "bmtool"
    /\ IF bmtool_missing(args.output_prefix)
       THEN StartThread("bmtool", bmtool_cmd(args))
       ELSE Skip("bmtool")
    /\ pc' = "srprism_loop"
    /\ i' = 1
    /\ b_srprism_run' = FALSE
    /\ UNCHANGED <<peer_vars, util_vars, cli, fs, at_start, on_path, args, b_blastdb_run, j, exit_code, proc_argv, ret, run, prev>>

\* lines 106-109, one iteration
SrprismLoop ==
    /\ pc = "srprism_loop"
    /\ LET files == srprism_files(args.output_prefix) IN
       IF ~os_path_exists(files[i])
       THEN /\ b_srprism_run' = TRUE
            /\ pc' = "srprism_if"
            /\ i' = i
       ELSE /\ b_srprism_run' = b_srprism_run
            /\ pc' = IF i = Len(files) THEN "srprism_if" ELSE "srprism_loop"
            /\ i' = IF i = Len(files) THEN i ELSE i + 1
    /\ UNCHANGED <<peer_vars, util_vars, cli, fs, at_start, on_path, args, b_blastdb_run, threads, j, out, exit_code,
                   command, thr, proc_argv, ret, run, prev>>

\* lines 111-136
SrprismIf ==
    /\ pc = "srprism_if"
    /\ IF b_srprism_run
       THEN StartThread("srprism", srprism_cmd(args))
       ELSE Skip("srprism")
    /\ pc' = "blastdb_loop"
    /\ i' = 1
    /\ b_blastdb_run' = FALSE
    /\ UNCHANGED <<peer_vars, util_vars, cli, fs, at_start, on_path, args, b_srprism_run, j, exit_code, proc_argv, ret, run, prev>>

\* lines 138-141, one iteration
BlastdbLoop ==
    /\ pc = "blastdb_loop"
    /\ LET files == blastdb_files(args.output_prefix) IN
       IF ~os_path_exists(files[i])
       THEN /\ b_blastdb_run' = TRUE
            /\ pc' = "blastdb_if"
            /\ i' = i
       ELSE /\ b_blastdb_run' = b_blastdb_run
            /\ pc' = IF i = Len(files) THEN "blastdb_if" ELSE "blastdb_loop"
            /\ i' = IF i = Len(files) THEN i ELSE i + 1
    /\ UNCHANGED <<peer_vars, util_vars, cli, fs, at_start, on_path, args, b_srprism_run, threads, j, out, exit_code,
                   command, thr, proc_argv, ret, run, prev>>

\* lines 143-157
BlastdbIf ==
    /\ pc = "blastdb_if"
    /\ IF b_blastdb_run
       THEN StartThread("makeblastdb", makeblastdb_cmd(args))
       ELSE Skip("makeblastdb")
    /\ pc' = "join"
    /\ j' = 1
    /\ UNCHANGED <<peer_vars, util_vars, cli, fs, at_start, on_path, args, i, b_srprism_run, b_blastdb_run, exit_code,
                   proc_argv, ret, run, prev>>

\* a join that does not wait
Terminated_nowait(t) == TRUE

\* Thread.join() returns once the thread's run() has ended, by return or by exception.
Terminated(t) == thr[t] \in {"completed", "error"}

\* lines 182-183, one iteration
Join ==
    /\ pc = "join"
    /\ j <= Len(threads)
    /\ Terminated(threads[j])
    /\ j' = j + 1
    /\ UNCHANGED <<peer_vars, util_vars, cli, fs, at_start, on_path, args, pc, i, b_srprism_run, b_blastdb_run, threads,
                   out, exit_code, command, thr, proc_argv, ret, run, prev>>

\* an exit status that tells whether a subprocess failed
ReturnStatus_aggregate == IF \E t \in DOMAIN ret : ret[t] # 0 THEN <<1>> ELSE <<0>>

\* The status the interpreter exits with after main() has returned (lines 185-186).
ReturnStatus == <<0>>

\* the join loop is exhausted: main returns and the process ends
Return ==
    /\ pc = "join"
    /\ j > Len(threads)
    /\ pc' = "returned"
    /\ exit_code' = ReturnStatus
    /\ UNCHANGED <<peer_vars, util_vars, cli, fs, at_start, on_path, args, i, b_srprism_run, b_blastdb_run, threads, j,
                   out, command, thr, proc_argv, ret, run, prev>>

(***************************************************************************)
(* run_proc_thread.run and the subprocess it waits for                     *)
(***************************************************************************)
\* execvp finds the program: a path that exists, or a bare name found through $PATH
CanExec(p) == p \in fs \/ p \in on_path

\* line 31 up to the start of the child: shlex.split, then fork and exec
Launch(t) ==
    /\ thr[t] = "started"
    /\ LET r == shlex_split(command[t]) IN
       IF r[1] = "ok" /\ CanExec(r[2][1])
       THEN /\ thr' = [thr EXCEPT ![t] = "running"]
            /\ proc_argv' = (t :> r[2]) @@ proc_argv
       ELSE \* ValueError from shlex.split or OSError from subprocess.call ends the thread
            /\ thr' = [thr EXCEPT ![t] = "error"]
            /\ UNCHANGED proc_argv
    /\ UNCHANGED <<peer_vars, util_vars, cli, fs, at_start, on_path, main_vars, command, ret, run, prev>>

\* The artifacts the running tool has still to write.
Pending(t) ==
    LET o == ToolOutputs(t, proc_argv[t]) IN
    IF os_path_exists(ToolInput(t, proc_argv[t])) THEN {k \in DOMAIN o : ~os_path_exists(o[k])} ELSE {}

\* the running tool creates its next artifact
Write(t) ==
    /\ thr[t] = "running"
    /\ Pending(t) # {}
    /\ LET o == ToolOutputs(t, proc_argv[t])
           k == CHOOSE m \in Pending(t) : \A n \in Pending(t) : m <= n
       IN  fs' = fs \cup {o[k]}
    /\ UNCHANGED <<peer_vars, util_vars, cli, at_start, on_path, main_vars, command, thr, proc_argv, run, prev, ret>>

\* The tool can end with status 0 once its input was readable and all its artifacts exist.
CanSucceed(t) ==
    /\ ToolOutputs(t, proc_argv[t]) # <<>>
    /\ os_path_exists(ToolInput(t, proc_argv[t]))
    /\ Pending(t) = {}

\* the subprocess ends with status rc; subprocess.call returns it and run() discards it
Exit(t, rc) ==
    /\ thr[t] = "running"
    /\ rc = 0 => CanSucceed(t)
    /\ thr' = [thr EXCEPT ![t] = "completed"]
    /\ ret' = (t :> rc) @@ ret
    /\ UNCHANGED <<peer_vars, util_vars, cli, fs, at_start, on_path, main_vars, command, proc_argv, run, prev>>

(***************************************************************************)
(* The operator runs the script again with the same command line.          *)
(***************************************************************************)
Outcome(t) ==
    CASE thr[t] = "completed" /\ ret[t] = 0  -> "ok"
      [] thr[t] = "completed"                 -> "failed"
      [] thr[t] = "error"                     -> "failed"
      [] OTHER                                -> "not run"

Reinvoke ==
    /\ pc \in {"returned", "exited"}
    /\ run < MaxRuns
    /\ run' = run + 1
    /\ prev' = [t \in Tools |-> Outcome(t)]
    /\ args' = cli
    /\ pc' = "start"
    /\ i' = 1
    /\ b_srprism_run' = FALSE
    /\ b_blastdb_run' = FALSE
    /\ threads' = <<>>
    /\ j' = 1
    /\ out' = <<>>
    /\ exit_code' = <<>>
    /\ command' = <<>>
    /\ thr' = [t \in Tools |-> "pending"]
    /\ proc_argv' = <<>>
    /\ ret' = <<>>
    /\ at_start' = [t \in Tools |-> Had(t, EffectivePrefix(cli), fs)]
    /\ UNCHANGED <<peer_vars, util_vars, cli, fs, on_path>>

Next ==
    \/ Start
    \/ Bmtool
    \/ SrprismLoop
    \/ SrprismIf
    \/ BlastdbLoop
    \/ BlastdbIf
    \/ Join
    \/ Return
    \/ \E t \in Tools : Launch(t)
    \/ \E t \in Tools : Write(t)
    \/ \E t \in Tools, rc \in {0, 1} : Exit(t, rc)
    \/ Reinvoke

Spec == Init /\ [][Next]_vars

(***************************************************************************)
(* Two processes of the script, started with the same command line on the  *)
(* same filesystem.  The first is followed through all of main; the second *)
(* through lines 52-91, its input check and its bmtool section.            *)
(***************************************************************************)
proc1_vars == <<cli, at_start, on_path, main_vars, command, thr, proc_argv, ret, run, prev>>

\* lines 52-66 in the second process
PeerStart ==
    /\ pc2 = "start"
    /\ LET a == [cli EXCEPT !.output_prefix = EffectivePrefix(cli)] IN
       IF \E k \in 1..Len(inputs(a)) : ~os_path_exists(inputs(a)[k])
       THEN pc2' = "exited"
       ELSE pc2' = "bmtool"
    /\ UNCHANGED <<util_vars, proc1_vars, fs, thr2, proc_argv2>>

\* lines 76-91 in the second process
PeerBmtool ==
    /\ pc2 = "bmtool"
    /\ IF bmtool_missing(EffectivePrefix(cli))
       THEN thr2' = "started"
       ELSE thr2' = "skipped"
    /\ pc2' = "after_bmtool"
    /\ UNCHANGED <<util_vars, proc1_vars, fs, proc_argv2>>

\* line 31 in the second process's bmtool thread
PeerLaunch ==
    /\ thr2 = "started"
    /\ LET r == shlex_split(bmtool_cmd([cli EXCEPT !.output_prefix = EffectivePrefix(cli)])) IN
       IF r[1] = "ok" /\ CanExec(r[2][1])
       THEN /\ thr2' = "running"
            /\ proc_argv2' = r[2]
       ELSE /\ thr2' = "error"
            /\ UNCHANGED proc_argv2
    /\ UNCHANGED <<util_vars, proc1_vars, fs, pc2>>

\* The artifacts the second process's bmtool has still to write.
PeerPending ==
    LET o == ToolOutputs("bmtool", proc_argv2) IN
    IF os_path_exists(ToolInput("bmtool", proc_argv2))
    THEN {k \in DOMAIN o : ~os_path_exists(o[k])} ELSE {}

\* the second process's bmtool creates its next artifact
PeerWrite ==
    /\ thr2 = "running"
    /\ PeerPending # {}
    /\ LET o == ToolOutputs("bmtool", proc_argv2)
           k == CHOOSE m \in PeerPending : \A n \in PeerPending : m <= n
       IN  fs' = fs \cup {o[k]}
    /\ UNCHANGED <<util_vars, proc1_vars, peer_vars>>

\* the second process's bmtool ends with status rc
PeerExit(rc) ==
    /\ thr2 = "running"
    /\ rc = 0 => /\ ToolOutputs("bmtool", proc_argv2) # <<>>
                 /\ os_path_exists(ToolInput("bmtool", proc_argv2))
                 /\ PeerPending = {}
    /\ thr2' = "completed"
    /\ UNCHANGED <<util_vars, proc1_vars, fs, pc2, proc_argv2>>

\* The artifacts present when the two processes start: bmtool's and srprism's sets,
\* each complete or empty.
TwoArtifacts(p) ==
    { a \cup b : a \in {{}, Artifacts("bmtool", p)}, b \in {{}, Artifacts("srprism", p)} }

InitTwo ==
    /\ MainInit(FastaChoices, PrefixChoices, {[paths |-> DefaultPaths, missing |-> {}]},
                [p \in FastaChoices \cup PrefixChoices |-> TwoArtifacts(p)])
    /\ pc2 = "start"
    /\ thr2 = "pending"
    /\ proc_argv2 = <<>>
    /\ UtilOff

NextTwo ==
    \/ Start
    \/ Bmtool
    \/ SrprismLoop
    \/ SrprismIf
    \/ BlastdbLoop
    \/ BlastdbIf
    \/ Join
    \/ Return
    \/ \E t \in Tools : Launch(t)
    \/ \E t \in Tools : Write(t)
    \/ \E t \in Tools, rc \in {0, 1} : Exit(t, rc)
    \/ PeerStart
    \/ PeerBmtool
    \/ PeerLaunch
    \/ PeerWrite
    \/ \E rc \in {0, 1} : PeerExit(rc)

SpecTwo == InitTwo /\ [][NextTwo]_vars

(***************************************************************************)
(* kneaddata/utilities.py: find_exe_in_path, find_dependency.              *)
(* A path is the sequence of its components, "/" first when it is          *)
(* absolute; <<>> is the empty string.  A value that may be None is a      *)
(* record [some, v].                                                       *)
(***************************************************************************)
MaxPathLen == 2

None == [some |-> FALSE, v |-> <<>>]

Str(p) == [some |-> TRUE, v |-> p]

\* Python's truth value of None or a string
Truthy(x) == x.some /\ x.v # <<>>

\* os.getcwd()
cwd == <<"/", "home", "u">>

isabs(p) == p # <<>> /\ p[1] = "/"

\* os.path.join
os_path_join(a, b) == IF isabs(b) THEN b ELSE a \o b

\* os.path.abspath
os_path_abspath(p) == IF isabs(p) THEN p ELSE cwd \o p

\* lines 198-203 from the k-th entry of $PATH on; d.has holds the entries under
\* which the executable exists, d.xok those under which os.access(.., X_OK) holds
RECURSIVE find_exe_from(_, _, _)
find_exe_from(d, bypass_permissions_check, k) ==
    IF k > Len(d.PATH) THEN None
    ELSE LET path == d.PATH[k] IN
         IF path \in d.has /\ (bypass_permissions_check \/ path \in d.xok)
         THEN Str(path)
         ELSE find_exe_from(d, bypass_permissions_check, k + 1)

\* lines 192-203
find_exe_in_path(d, bypass_permissions_check) == find_exe_from(d, bypass_permissions_check, 1)

\* sys.exit(arg): the status the process ends with, a message ends it with 1
sys_exit(arg) == <<"exit", arg % 256>>

\* lines 205-232
find_dependency(d) ==
    IF Truthy(d.path_provided)
    THEN LET path_provided == os_path_abspath(d.path_provided.v) IN
         IF ~d.listdir.ok THEN sys_exit(1)
         ELSE IF d.exe \notin d.listdir.files THEN sys_exit(1)
         ELSE <<"return", os_path_abspath(os_path_join(path_provided, <<d.exe>>))>>
    ELSE LET exe_path == find_exe_in_path(d, d.bypass_permissions_check) IN
         IF ~Truthy(exe_path) THEN sys_exit(1)
         ELSE <<"return", os_path_abspath(os_path_join(exe_path.v, <<d.exe>>))>>

\* The directories $PATH and the option may name: the empty entry (the current
\* directory), an absolute and a relative one.
DepDirs == { <<>>, <<"/", "usr", "bin">>, <<"bin">> }

ProvidedChoices == { None, Str(<<>>), Str(<<"/", "opt", "tools">>), Str(<<"tools">>) }

ListdirChoices ==
    { [ok |-> FALSE, files |-> {}], [ok |-> TRUE, files |-> {}],
      [ok |-> TRUE, files |-> {"bowtie2"}], [ok |-> TRUE, files |-> {"trimmomatic"}] }

\* $PATH split at os.pathsep: at least one entry, the empty string when $PATH is empty
PathChoices == UNION { [1..n -> DepDirs] : n \in 1..MaxPathLen }

\* Only a file that exists can be executable.
DepInputs ==
    { [path_provided |-> pp, exe |-> "bowtie2", bypass_permissions_check |-> b,
       PATH |-> P, listdir |-> l, has |-> hx[1], xok |-> hx[2]] :
         pp \in ProvidedChoices, b \in BOOLEAN, P \in PathChoices, l \in ListdirChoices,
         hx \in { y \in (SUBSET DepDirs) \X (SUBSET DepDirs) : y[2] \subseteq y[1] } }

all_main == <<proc1_vars, fs>>

FindDependency ==
    /\ dep_out = <<"called">>
    /\ dep_out' = find_dependency(dep_in)
    /\ UNCHANGED <<peer_vars, all_main, dep_in, pr_in, pr_pc, log, pr_log, pr_out>>

(***************************************************************************)
(* kneaddata/utilities.py: process_return, statement by statement.         *)
(***************************************************************************)
\* every call logs at debug level
log_for_debug(retcode) == "debug"

\* lines 67-71: the function bound to log
log_for(retcode) == IF retcode # 0 THEN "critical" ELSE "debug"

PrFrame == <<peer_vars, all_main, dep_in, dep_out, pr_in>>

\* lines 65-66
PrName ==
    /\ pr_pc = "name"
    /\ pr_log' = IF pr_in.name # "" THEN Append(pr_log, <<"debug", "finished">>) ELSE pr_log
    /\ pr_pc' = "retcode"
    /\ UNCHANGED <<PrFrame, log, pr_out>>

\* lines 67-71
PrRetcode ==
    /\ pr_pc = "retcode"
    /\ log' = log_for(pr_in.retcode)
    /\ pr_log' = IF pr_in.retcode # 0 THEN Append(pr_log, <<log', "exit status">>) ELSE pr_log
    /\ pr_pc' = "stdout"
    /\ UNCHANGED <<PrFrame, pr_out>>

\* lines 72-73
PrStdout ==
    /\ pr_pc = "stdout"
    /\ pr_log' = IF pr_in.stdout # "" THEN Append(pr_log, <<log, "stdout">>) ELSE pr_log
    /\ pr_pc' = "stderr"
    /\ UNCHANGED <<PrFrame, log, pr_out>>

\* lines 74-75
PrStderr ==
    /\ pr_pc = "stderr"
    /\ pr_log' = IF pr_in.stderr # "" THEN Append(pr_log, <<log, "stderr">>) ELSE pr_log
    /\ pr_pc' = "exit"
    /\ UNCHANGED <<PrFrame, log, pr_out>>

\* lines 76-77
PrExit ==
    /\ pr_pc = "exit"
    /\ IF pr_in.retcode # 0
       THEN pr_out' = sys_exit(pr_in.retcode) /\ pr_pc' = "exited"
       ELSE pr_out' = <<"return">> /\ pr_pc' = "returned"
    /\ UNCHANGED <<PrFrame, log, pr_log>>

\* The statuses a child can hand back: 0, small positive ones, and -9 for a child
\* killed by signal 9.
RetCodes == {-9, 0, 1, 2}

PrInputs ==
    [name : {"", "bowtie2"}, retcode : RetCodes, stdout : {"", "text"}, stderr : {"", "text"}]

\* The script generate_db.py is not running.
MainIdle ==
    /\ cli = [fasta |-> <<"ref.fa">>, output_prefix |-> <<>>, bmtool_path |-> DefaultPaths.bmtool_path,
              srprism_path |-> DefaultPaths.srprism_path,
              makeblastdb_path |-> DefaultPaths.makeblastdb_path]
    /\ fs = {}
    /\ on_path = {}
    /\ at_start = [t \in Tools |-> "none"]
    /\ args = cli
    /\ pc = "off"
    /\ i = 1
    /\ b_srprism_run = FALSE
    /\ b_blastdb_run = FALSE
    /\ threads = <<>>
    /\ j = 1
    /\ out = <<>>
    /\ exit_code = <<>>
    /\ command = <<>>
    /\ thr = [t \in Tools |-> "pending"]
    /\ proc_argv = <<>>
    /\ ret = <<>>
    /\ run = 1
    /\ prev = [t \in Tools |-> "none"]

\* One call of find_dependency or one call of process_return, on any of the inputs.
InitUtil ==
    /\ MainIdle
    /\ PeerOff
    /\ log = "none"
    /\ pr_log = <<>>
    /\ pr_out = <<>>
    /\ \/ /\ dep_in \in DepInputs
          /\ dep_out = <<"called">>
          /\ pr_in = <<>>
          /\ pr_pc = "off"
       \/ /\ dep_in = <<>>
          /\ dep_out = <<"off">>
          /\ pr_in \in PrInputs
          /\ pr_pc = "name"

NextUtil ==
    \/ FindDependency
    \/ PrName
    \/ PrRetcode
    \/ PrStdout
    \/ PrStderr
    \/ PrExit

SpecUtil == InitUtil /\ [][NextUtil]_vars

(***************************************************************************)
(* Properties                                                              *)
(***************************************************************************)
Started(t) == thr[t] \in {"started", "running", "completed", "error"}

\* C1 (idempotence): in the invocation that follows one in which all three tools
\* ran and ended with status 0, no task is started: every task stays pending until
\* it is reported as already existing.
C1_Idempotence ==
    (run > 1 /\ \A t \in Tools : prev[t] = "ok") =>
        \A t \in Tools : thr[t] \in {"pending", "skipped"}

\* C2 (partial skip): when each tool's artifact set was either complete or empty as
\* the invocation began, then once main has made its three decisions the skipped
\* tasks are exactly those whose set was complete and all others were started.
C2_PartialSkip ==
    (pc \in {"join", "returned"} /\ \A t \in Tools : at_start[t] \in {"all", "none"}) =>
        \A t \in Tools : /\ thr[t] = "skipped" <=> at_start[t] = "all"
                         /\ Started(t) <=> at_start[t] = "none"

\* C3 (makeblastdb's check): when main reaches line 143, b_blastdb_run is false
\* exactly if <prefix>.nhr, <prefix>.nin and <prefix>.nsq all exist.
C3_BlastdbCheck ==
    pc = "blastdb_if" =>
        (b_blastdb_run <=> ~(Artifacts("makeblastdb", args.output_prefix) \subseteq fs))

\* C4 (srprism's check): when main reaches line 111, b_srprism_run is true exactly
\* if at least one of the nine <prefix>.srprism.* paths is missing; and past line 125
\* the srprism task is skipped exactly if all nine existed as the invocation began,
\* and started otherwise.
C4_SrprismCompleteness ==
    /\ pc = "srprism_if" =>
          (b_srprism_run <=> \E f \in Artifacts("srprism", args.output_prefix) : f \notin fs)
    /\ pc \in {"blastdb_loop", "blastdb_if", "join", "returned"} =>
          /\ thr["srprism"] = "skipped" <=> at_start["srprism"] = "all"
          /\ Started("srprism") <=> at_start["srprism"] # "all"

\* eight of the nine srprism files exist and the srprism thread has been started
C4_Witness ==
    /\ thr["srprism"] = "started"
    /\ Cardinality(Artifacts("srprism", args.output_prefix) \cap fs) = Len(srprism_ext) - 1

\* C5 (join before exit): once the process has ended, by main returning or by
\* sys.exit, no thread it started is still waiting to launch or running its subprocess.
C5_JoinBeforeExit ==
    exit_code # <<>> => \A t \in Tools : thr[t] \notin {"started", "running"}

\* main has returned after all three subprocesses ran to their end
C5_Witness ==
    pc = "returned" /\ \A t \in Tools : thr[t] = "completed"

\* C6 (missing input): when the FASTA path does not exist, main ends at line 66
\* with status 1 and has started no thread, whatever artifacts exist.
C6_FatalPreflight ==
    (pc # "start" /\ ~os_path_exists(cli.fasta)) =>
        /\ pc = "exited"
        /\ exit_code = <<1>>
        /\ threads = <<>>
        /\ \A t \in Tools : thr[t] = "pending"

\* main has exited with status 1 although every artifact exists
C6_Witness ==
    /\ pc = "exited" /\ exit_code = <<1>>
    /\ ~os_path_exists(cli.fasta)
    /\ \A t \in Tools : at_start[t] = "all"

\* C7 (missing tool path): when a tool path given on the command line names no
\* file, main starts no thread and the process does not end with status 0.
C7_ToolPathPreflight ==
    (\E t \in Tools : /\ ToolPath(cli, t) # ToolPath(DefaultPaths, t)
                       /\ ~os_path_exists(ToolPath(cli, t))) =>
        /\ \A t \in Tools : ~Started(t)
        /\ exit_code # <<0>>

\* The check of tool t asked for a run.
Scheduled(t) ==
    CASE t = "bmtool"   -> at_start[t] # "all"
      [] t = "srprism"  -> b_srprism_run
      [] OTHER          -> b_blastdb_run

\* Thread t's command splits, and names a program that can be executed.
Startable(t) ==
    LET r == shlex_split(command[t]) IN r[1] = "ok" /\ CanExec(r[2][1])

ExpectedArgv(t, a) ==
    CASE t = "bmtool"   ->
            <<a.bmtool_path, Tok("-d"), a.fasta, Tok("-o"), a.output_prefix \o <<".bitmask">>,
              Tok("-A"), Tok("0"), Tok("-z"), Tok("-w"), Tok("18")>>
      [] t = "srprism"  ->
            <<a.srprism_path, Tok("mkindex"), Tok("-i"), a.fasta, Tok("-o"),
              a.output_prefix \o <<".srprism">>, Tok("-M"), Tok("7168")>>
      [] OTHER          ->
            <<a.makeblastdb_path, Tok("-in"), a.fasta, Tok("-dbtype"), Tok("nucl"),
              Tok("-out"), a.output_prefix>>

\* C9 (command fidelity): every subprocess is launched with exactly the argument
\* vector of its tool, each path being one element of it.
C9_CommandFidelity ==
    \A t \in DOMAIN proc_argv : proc_argv[t] = ExpectedArgv(t, args)

\* C10 (concurrent completion): when main has returned, what it has printed holds a
\* result entry, naming the tool and its exit status, for every thread it started
\* whose subprocess has ended.
C10_FinalReport ==
    pc = "returned" =>
        \A t \in Range(threads) \cap DOMAIN ret :
            \E k \in DOMAIN out : out[k] = <<"result", t, ret[t]>>

\* C11 (failure is logged): when main has returned, what it has printed holds an
\* error message, naming the tool and its exit status, for every subprocess that
\* ended with a non-zero status.
C11_FailureLogged ==
    pc = "returned" =>
        \A t \in DOMAIN ret : ret[t] # 0 =>
            \E k \in DOMAIN out : out[k] = <<"error", t, ret[t]>>

\* The place of tool t in the order of main's three sections.
Rank(t) ==
    CASE t = "bmtool"   -> 1
      [] t = "srprism"  -> 2
      [] OTHER          -> 3

\* C12 (launch order): the threads are started in the order bmtool, srprism,
\* makeblastdb: the list of started threads is in that order and holds exactly the
\* started tasks, and a task is decided (its thread started, or skipped) only after
\* every earlier task was, so that no later subprocess precedes an earlier thread.
C12_LaunchOrder ==
    /\ \A m, n \in DOMAIN threads : m < n => Rank(threads[m]) < Rank(threads[n])
    /\ \A t \in Tools : Started(t) <=> t \in Range(threads)
    /\ \A a, b \in Tools : (Rank(a) < Rank(b) /\ thr[b] # "pending") => thr[a] # "pending"

\* makeblastdb's subprocess has ended while bmtool's, started first, still runs
C12_Witness ==
    thr["makeblastdb"] = "completed" /\ thr["bmtool"] = "running"

\* C13 (default prefix): the prefix main works with is the input file's path when
\* --output-prefix was omitted and the given value otherwise; every command that is
\* built and every existence check that is made uses that prefix.
C13_DefaultPrefix ==
    LET P == IF cli.output_prefix = <<>> THEN cli.fasta ELSE cli.output_prefix
        a == [cli EXCEPT !.output_prefix = P]
    IN  /\ pc # "start" => args.output_prefix = P
        /\ \A t \in DOMAIN command :
              command[t] = CASE t = "bmtool"  -> bmtool_cmd(a)
                             [] t = "srprism" -> srprism_cmd(a)
                             [] OTHER         -> makeblastdb_cmd(a)
        /\ thr["bmtool"] = "skipped" => bitmask_file(P) \in fs
        /\ (thr["bmtool"] # "pending" /\ bitmask_file(P) \notin fs) => Started("bmtool")
        /\ pc = "srprism_if" =>
              (b_srprism_run <=> \E k \in DOMAIN srprism_ext : srprism_files(P)[k] \notin fs)
        /\ pc = "blastdb_if" =>
              (b_blastdb_run <=> \E k \in DOMAIN srprism_ext : blastdb_files(P)[k] \notin fs)

\* without --output-prefix: bmtool's command is built and srprism is skipped, both
\* on paths under the input file's path
C13_Witness ==
    /\ cli.output_prefix = <<>>
    /\ "bmtool" \in DOMAIN command
    /\ thr["srprism"] = "skipped"

\* C14 (task lifecycle): a skipped task has no thread and no subprocess, no task is
\* started twice in one invocation, at most three subprocesses exist, and when main
\* returns every task is skipped or has run its subprocess to completion.
C14_TaskLifecycle ==
    /\ \A t \in Tools : thr[t] = "skipped" => (t \notin DOMAIN proc_argv /\ t \notin Range(threads))
    /\ \A m, n \in DOMAIN threads : m # n => threads[m] # threads[n]
    /\ Cardinality(DOMAIN proc_argv) <= Cardinality(Tools)
    /\ pc = "returned" => \A t \in Tools : thr[t] \in {"skipped", "completed"}

\* C15 (scheduling is independent of the interleaving): the paths the subprocesses
\* of one invocation write are pairwise disjoint and disjoint from the paths every
\* other task's check reads, and once main has made its three decisions the set of
\* started tasks is the one fixed by the filesystem at the start of the invocation,
\* whatever the subprocesses have written in between.
C15_ScheduleFromStart ==
    LET P == EffectivePrefix(cli)
        Check(t) == CASE t = "bmtool"  -> {bitmask_file(P)}
                      [] t = "srprism" -> Range(srprism_files(P))
                      [] OTHER         -> Range(blastdb_files(P))
        Writes(t) == IF t \in DOMAIN proc_argv
                     THEN Range(ToolOutputs(t, proc_argv[t])) ELSE {}
    IN  /\ \A t, u \in Tools : t # u =>
              (Writes(t) \cap Writes(u) = {} /\ Writes(t) \cap Check(u) = {})
        /\ pc \in {"join", "returned"} =>
              /\ Started("bmtool") <=> at_start["bmtool"] # "all"
              /\ Started("srprism") <=> at_start["srprism"] # "all"
              /\ Started("makeblastdb") <=> ~(Check("makeblastdb") \subseteq fs)

\* bmtool's subprocess has written its artifact and ended while main is still
\* checking the paths for makeblastdb
C15_Witness ==
    /\ pc = "blastdb_loop"
    /\ at_start["bmtool"] = "none"
    /\ thr["bmtool"] = "completed"
    /\ bitmask_file(EffectivePrefix(cli)) \in fs
    /\ thr["srprism"] = "running"

\* C16 (retry by re-invocation): in an invocation that follows one where some tasks
\* ended with status 0 leaving their full artifact set and others failed leaving
\* theirs incomplete, every task that succeeded is skipped and the tasks started are
\* exactly the ones that failed.
C16_RetryByReinvocation ==
    (run > 1 /\ pc \in {"join", "returned"}) =>
        \A t \in Tools :
            /\ (prev[t] = "ok" /\ at_start[t] = "all") => thr[t] = "skipped"
            /\ (prev[t] = "failed" /\ at_start[t] # "all") => Started(t)
            /\ Started(t) => prev[t] = "failed"

\* C17 (no lock between processes): a process's decision on bmtool follows from the
\* existence of <prefix>.bitmask alone, whatever the other process is doing: a task
\* is skipped only when the file exists and is started whenever a decision finds it
\* missing; and within the first process no two subprocesses write a common path.
C17_NoLock ==
    LET P == EffectivePrefix(cli)
        Writes(t) == IF t \in DOMAIN proc_argv
                     THEN Range(ToolOutputs(t, proc_argv[t])) ELSE {}
    IN  /\ thr["bmtool"] = "skipped" => bitmask_file(P) \in fs
        /\ thr2 = "skipped" => bitmask_file(P) \in fs
        /\ (thr["bmtool"] # "pending" /\ bitmask_file(P) \notin fs) => Started("bmtool")
        /\ (pc2 = "after_bmtool" /\ bitmask_file(P) \notin fs) => thr2 # "skipped"
        /\ \A t, u \in DOMAIN proc_argv : t # u => Writes(t) \cap Writes(u) = {}

\* both processes found <prefix>.bitmask missing and both run bmtool on it
C17_Witness ==
    /\ thr["bmtool"] = "running"
    /\ thr2 = "running"
    /\ ToolOutputs("bmtool", proc_argv["bmtool"]) = ToolOutputs("bmtool", proc_argv2)
    /\ ToolOutputs("bmtool", proc_argv2) = <<bitmask_file(EffectivePrefix(cli))>>
    /\ bitmask_file(EffectivePrefix(cli)) \notin fs

\* C18 (dependency resolution): find_dependency returns only a resolved executable.
\* Given a directory, it returns <absolute directory>/<exe> when exe is listed there
\* and ends the process with a non-zero status otherwise, whatever $PATH holds; given
\* none, it returns <dir>/<exe> for the first entry of $PATH under which exe exists
\* (and is executable, unless the permission check is bypassed) and ends the process
\* with a non-zero status when there is no such entry.
C18_FindDependency ==
    dep_out \notin {<<"off">>, <<"called">>} =>
        LET d == dep_in
            hits == {k \in DOMAIN d.PATH :
                        d.PATH[k] \in d.has /\ (d.bypass_permissions_check \/ d.PATH[k] \in d.xok)}
            first == CHOOSE k \in hits : \A m \in hits : k <= m
            Failed == dep_out[1] = "exit" /\ dep_out[2] # 0
            Abs(p) == IF p # <<>> /\ p[1] = "/" THEN p ELSE <<"/", "home", "u">> \o p
        IN  IF d.path_provided.some /\ d.path_provided.v # <<>>
            THEN IF d.listdir.ok /\ d.exe \in d.listdir.files
                 THEN dep_out = <<"return", Abs(d.path_provided.v) \o <<d.exe>> >>
                 ELSE Failed
            ELSE IF hits = {}
                 THEN Failed
                 ELSE dep_out = <<"return", Abs(d.PATH[first]) \o <<d.exe>> >>

\* C19 as first stated (process_return): the call ends the process exactly when
\* retcode is non-zero, with an exit status equal to retcode, after the exit status
\* and every non-empty stdout and stderr were logged at critical level; with retcode
\* zero it returns and logs stdout and stderr at debug level only.
C19_ExitStatusIsRetcode ==
    pr_out # <<>> =>
        /\ pr_out[1] = "exit" <=> pr_in.retcode # 0
        /\ pr_out[1] = "exit" =>
              /\ pr_out[2] = pr_in.retcode
              /\ <<"critical", "exit status">> \in Range(pr_log)
              /\ pr_in.stdout # "" => <<"critical", "stdout">> \in Range(pr_log)
              /\ pr_in.stderr # "" => <<"critical", "stderr">> \in Range(pr_log)
        /\ pr_out[1] = "return" =>
              /\ \A k \in DOMAIN pr_log : pr_log[k][1] = "debug"
              /\ pr_in.stdout # "" => <<"debug", "stdout">> \in Range(pr_log)
              /\ pr_in.stderr # "" => <<"debug", "stderr">> \in Range(pr_log)

\* C19 (process_return): the call ends the process exactly when retcode is non-zero,
\* with sys.exit(retcode), so that the exit status is retcode modulo 256, after the
\* exit status and every non-empty stdout and stderr were logged at critical level;
\* with retcode zero it returns and logs stdout and stderr at debug level only.
C19_ProcessReturn ==
    pr_out # <<>> =>
        /\ pr_out[1] = "exit" <=> pr_in.retcode # 0
        /\ pr_out[1] = "exit" =>
              /\ pr_out[2] = pr_in.retcode % 256
              /\ (pr_in.retcode \in 1..255) => pr_out[2] = pr_in.retcode
              /\ <<"critical", "exit status">> \in Range(pr_log)
              /\ pr_in.stdout # "" => <<"critical", "stdout">> \in Range(pr_log)
              /\ pr_in.stderr # "" => <<"critical", "stderr">> \in Range(pr_log)
        /\ pr_out[1] = "return" =>
              /\ \A k \in DOMAIN pr_log : pr_log[k][1] = "debug"
              /\ pr_in.stdout # "" => <<"debug", "stdout">> \in Range(pr_log)
              /\ pr_in.stderr # "" => <<"debug", "stderr">> \in Range(pr_log)

\* a child killed by a signal, with output on both streams: the process has ended
C19_Witness ==
    /\ pr_out # <<>>
    /\ pr_out[1] = "exit"
    /\ pr_in.retcode < 0
    /\ pr_in.stdout # ""
    /\ pr_in.stderr # ""

====
